---- MODULE Spec2Model ----
(***************************************************************************)
(* Role coordination and promotion of ec2cluster (ec2cluster/base.py):     *)
(* PostgresqlCluster nodes of one cluster share a Route53 zone.  Every     *)
(* blocking network round trip of a method is one step of the node that    *)
(* runs it, so that the methods of different nodes interleave between    *)
(* their DNS lookup and their Route53 commit.                              *)
(***************************************************************************)
EXTENDS Integers, Sequences, FiniteSets, TLC

\* Number of nodes (instances) of the cluster.
NumNodes == 2
\* Number of public method calls made on the nodes of the cluster, in total.
MaxCalls == 3

Nodes == 1 .. NumNodes

VARIABLES
    zone,      \* the Route53 hosted zone: a set of resource record sets
    pc,        \* per node: the round trip the running method is about to make
    op,        \* per node: the public method that is running
    role,      \* per node: self.role
    force,     \* per node: the force argument of the running (or last) method
    lookup,    \* per node: how the DNS lookup of the running (or last) method came back
    master_seen,  \* per node: what check_master met at the master CNAME
    active_master,  \* per node: local of promote, the answer of check_master
    master_cname_exists,  \* per node: local of acquire_master_cname
    old_cname_value,      \* per node: local of acquire_master_cname
    result,    \* per node: how the last public method ended
    db,        \* per node: the local postgresql server
    cron,      \* per node: the backup job is in the postgres crontab
    trace,     \* per node: the external effects of the running method, in order
    calls      \* number of public method calls made so far

vars == <<zone, pc, op, role, force, lookup, master_seen, active_master, master_cname_exists, old_cname_value,
          result, db, cron, trace, calls>>

----------------------------------------------------------------------------
(* Names and metadata *)

MASTER == "master"
SLAVE == "slave"
NoRole == "unset"

\* self.master_cname and self.slave_cname: one cluster, so the same on every node.
master_cname == "master.cluster"
slave_cname == "slave.cluster"

\* A host name as text: the name and whether it is written with the root dot.
HostText(h, dot) == [host |-> h, dot |-> dot]

\* self.metadata['public-hostname'] and self.metadata['instance-id']
public_hostname(n) == HostText(n, FALSE)
instance_id(n) == n

NoValue == HostText(0, FALSE)

\* weight='10' of the slave pool records
SlaveWeight == 10

----------------------------------------------------------------------------
(* Python values *)

\* A row as cursor.fetchone() returns it, and a plain string.
PyTuple(x) == [type |-> "tuple", items |-> <<x>>]
PyStr(s) == [type |-> "str", items |-> <<s>>]

\* Python's ==: values of different types are never equal.
PyEq(a, b) == a.type = b.type /\ a.items = b.items

\* str.endswith, on texts given as sequences of words.
EndsWith(s, suffix) ==
    /\ Len(s) >= Len(suffix)
    /\ SubSeq(s, Len(s) - Len(suffix) + 1, Len(s)) = suffix

\* How a method ends.
Running == [kind |-> "running", type |-> "", arg |-> <<>>]
NotCalled == [kind |-> "none", type |-> "", arg |-> <<>>]
Return(v) == [kind |-> "return", type |-> v, arg |-> <<>>]
Raise(t, a) == [kind |-> "raise", type |-> t, arg |-> a]

----------------------------------------------------------------------------
(* The DNS resolver: dns.resolver.query(name, 'CNAME') *)

\* rdata.to_text() of a CNAME answer: the target as an absolute name.
to_text(v) == HostText(v.host, TRUE)

MasterRecords(z) == {r \in z : r.name = master_cname}
SlaveRecords(z) == {r \in z : r.name = slave_cname}

\* The answer the zone gives for the master CNAME.
Resolve(z) ==
    IF MasterRecords(z) = {}
    THEN [status |-> "NXDOMAIN", items |-> {}]
    ELSE [status |-> "NOERROR", items |-> {r.value : r \in MasterRecords(z)}]

\* A lookup that fails without an answer (dns.exception.Timeout).
LookupTimeout == [status |-> "Timeout", items |-> {}]

\* What one query may come back with.
Responses(z) == {Resolve(z), LookupTimeout}

\* answers.rrset.items[0]
FirstItem(resp) == CHOOSE v \in resp.items : TRUE

----------------------------------------------------------------------------
(* Route53: ResourceRecordSets.add_change / commit *)

\* A resource record set; identifier and weight are <<>> on a simple record.
Record(name, value, identifier, weight) ==
    [name |-> name, value |-> value, identifier |-> identifier, weight |-> weight]

\* Route53 reads a CNAME value as a fully qualified name, with or without the dot.
Canonical(rec) == [rec EXCEPT !.value = HostText(rec.value.host, TRUE)]

Change(action, rec) == [action |-> action, rec |-> rec]

AlreadyExistsMessage ==
    <<"Tried", "to", "create", "resource", "record", "set", "but", "it", "already", "exists">>
NotFoundMessage ==
    <<"Tried", "to", "delete", "resource", "record", "set", "but", "it", "was", "not", "found">>
PolicyMessage ==
    <<"RRSet", "with", "the", "same", "name", "and", "type", "has", "another", "routing", "policy">>
ThrottlingMessage == <<"Rate", "exceeded">>

\* One change against the zone: the new zone, or the message of the rejection.
ApplyChange(z, ch) ==
    LET rec == Canonical(ch.rec) IN
    IF ch.action = "DELETE"
    THEN IF rec \in z
         THEN [ok |-> TRUE, zone |-> z \ {rec}, message |-> <<>>]
         ELSE [ok |-> FALSE, zone |-> z, message |-> NotFoundMessage]
    ELSE IF \E r \in z : r.name = rec.name /\ r.identifier = rec.identifier
         THEN [ok |-> FALSE, zone |-> z, message |-> AlreadyExistsMessage]
         ELSE IF \E r \in z : r.name = rec.name /\ (r.identifier = <<>>) # (rec.identifier = <<>>)
              THEN [ok |-> FALSE, zone |-> z, message |-> PolicyMessage]
              ELSE [ok |-> TRUE, zone |-> z \cup {rec}, message |-> <<>>]

\* A change batch is applied as a whole or not at all.
RECURSIVE ApplyBatch(_, _, _)
ApplyBatch(z0, z, batch) ==
    IF batch = <<>>
    THEN [ok |-> TRUE, zone |-> z, message |-> <<>>]
    ELSE LET r == ApplyChange(z, Head(batch)) IN
         IF r.ok THEN ApplyBatch(z0, r.zone, Tail(batch))
         ELSE [ok |-> FALSE, zone |-> z0, message |-> r.message]

\* changes.commit(): the service may also refuse the request as such.
Commit(z, batch, fault) ==
    IF fault
    THEN [ok |-> FALSE, zone |-> z, message |-> ThrottlingMessage]
    ELSE ApplyBatch(z, z, batch)

----------------------------------------------------------------------------
(* The methods' decisions, as the code computes them *)

\* determine_role that takes every failure of the lookup for "no such name".
determine_role_any_failure(resp) ==
    IF resp.status = "NOERROR" THEN Return(SLAVE) ELSE Return(MASTER)

\* determine_role with the two roles the wrong way round.
determine_role_swapped(resp) ==
    IF resp.status = "NXDOMAIN" THEN Return(SLAVE)
    ELSE IF resp.status = "NOERROR" THEN Return(MASTER)
    ELSE Raise(resp.status, <<>>)

\* determine_role: only NXDOMAIN is caught; any other failure of the lookup
\* leaves the method as the exception it is.
determine_role(resp) ==
    IF resp.status = "NXDOMAIN" THEN Return(MASTER)
    ELSE IF resp.status = "NOERROR" THEN Return(SLAVE)
    ELSE Raise(resp.status, <<>>)

\* acquire_master_cname, lines 33-41: the lookup and the two locals it sets.
acquire_lookup(resp) ==
    IF resp.status = "NXDOMAIN"
    THEN [raised |-> FALSE, exists |-> FALSE, old |-> NoValue, type |-> ""]
    ELSE IF resp.status = "NOERROR"
    THEN [raised |-> FALSE, exists |-> TRUE, old |-> to_text(FirstItem(resp)), type |-> ""]
    ELSE [raised |-> TRUE, exists |-> FALSE, old |-> NoValue, type |-> resp.status]

\* acquire_master_cname without the refusal of line 43.
acquire_never_refused(exists, f) == FALSE

\* acquire_master_cname, line 43: the CNAME exists and force is False.
acquire_refused(exists, f) == exists = TRUE /\ f = FALSE

\* The master CNAME created the way the slave pool's records are: weighted, with
\* the host as its identifier.
MasterRecordWeighted(value) ==
    Record(master_cname, value, <<value.host>>, <<SlaveWeight>>)

\* The record of the master CNAME with a value: a simple record.
MasterRecord(value) == Record(master_cname, value, <<>>, <<>>)

\* acquire_master_cname that only creates, with no DELETE of the old value.
acquire_changes_create_only(n, exists, old) ==
    <<Change("CREATE", MasterRecord(public_hostname(n)))>>

\* acquire_master_cname whose batch over an existing CNAME holds the DELETE
\* alone, the CREATE being left to a later commit.
acquire_changes_delete_alone(n, exists, old) ==
    IF exists THEN <<Change("DELETE", MasterRecord(old))>>
    ELSE <<Change("CREATE", MasterRecord(public_hostname(n)))>>

\* acquire_master_cname, lines 50-58: DELETE of the old value when the CNAME
\* exists, then CREATE with this instance's public hostname, in one batch.
acquire_changes(n, exists, old) ==
    (IF exists THEN <<Change("DELETE", MasterRecord(old))>> ELSE <<>>)
        \o <<Change("CREATE", MasterRecord(public_hostname(n)))>>

\* add_to_slave_cname_pool, lines 73-79: one weighted record per instance.
pool_changes(n) ==
    <<Change("CREATE",
             Record(slave_cname, public_hostname(n), <<instance_id(n)>>, <<SlaveWeight>>))>>

\* add_to_slave_cname_pool that re-raises every rejection.
pool_error_reraised(message) == Raise("DNSServerError", message)

\* add_to_slave_cname_pool, lines 80-87: what becomes of a rejected commit
\* (returning, the method has logged a warning).
pool_error(message) ==
    IF EndsWith(message, <<"it", "already", "exists">>)
    THEN Return("None")
    ELSE Raise("DNSServerError", message)

\* check_master, lines 336-350, on a connection that was opened: in_recovery
\* is what the remote server answers to pg_is_in_recovery().
check_master_rows(in_recovery) ==
    IF PyEq(PyTuple(in_recovery), PyStr("t")) THEN FALSE
    ELSE IF PyEq(PyTuple(1), PyStr("1")) THEN TRUE
    ELSE FALSE

\* check_master: a failed connection is "no master".
check_master(connected, in_recovery) ==
    IF ~connected THEN FALSE ELSE check_master_rows(in_recovery)

\* promote that returns whenever force is not given.
promote_refused_without_force(active, f) == f = FALSE

\* promote, lines 376-380: return without promoting.
promote_refused(active, f) == active = TRUE /\ f = FALSE

\* pg_ctl promote against the local server; fault is a failure of the command
\* on a server that could have been promoted.
NotStandbyOutput ==
    <<"pg_ctl:", "cannot", "promote", "server;", "server", "is", "not", "in", "standby", "mode\n">>
NotRunningOutput ==
    <<"pg_ctl:", "PID", "file", "does", "not", "exist\n", "Is", "server", "running?\n">>
SignalOutput == <<"pg_ctl:", "could", "not", "send", "promote", "signal\n">>
PromotedOutput == <<"server", "promoting\n">>

pg_ctl_promote(state, fault) ==
    IF state = "down" THEN [returncode |-> 1, output |-> NotRunningOutput]
    ELSE IF state = "primary" THEN [returncode |-> 1, output |-> NotStandbyOutput]
    ELSE IF fault THEN [returncode |-> 1, output |-> SignalOutput]
    ELSE [returncode |-> 0, output |-> PromotedOutput]

\* promote that takes the master CNAME for the promoted node.
promote_changes_takeover(n, z) ==
    acquire_changes(n, MasterRecords(z) # {},
                    IF MasterRecords(z) # {} THEN to_text(FirstItem(Resolve(z))) ELSE NoValue)

\* promote that takes the promoted node out of the slave pool.
promote_changes_leave_pool(n, z) ==
    IF \E r \in SlaveRecords(z) : r.identifier = <<instance_id(n)>>
    THEN <<Change("DELETE", Head(pool_changes(n)).rec)>>
    ELSE <<>>

\* promote, lines 365-403: the changes promote sends to Route53: none, it
\* makes no connection to Route53.
promote_changes(n, z) == <<>>

\* promote that records the new role of the promoted node.
role_after_promote_master(current, res) ==
    IF res.kind = "return" THEN MASTER ELSE current

\* promote, lines 365-403: self.role after promote: promote does not assign it.
role_after_promote(current, res) == current

\* promote that raises the same plain Exception for every failure of the command.
promote_result_one_exception(cmd) ==
    IF cmd.returncode # 0 THEN Raise("Exception", cmd.output) ELSE Return("None")

\* promote that carries on after a failed command.
promote_result_swallowed(cmd) == Return("None")

\* promote that looks for the message without its newline.
promote_result_no_newline(cmd) ==
    IF cmd.returncode # 0
    THEN IF EndsWith(cmd.output, <<"server", "is", "not", "in", "standby", "mode">>)
         THEN Raise("Exception", cmd.output)
         ELSE Raise("CalledProcessError", cmd.output)
    ELSE Return("None")

\* promote, lines 387-403: how promote ends after the command.
promote_result(cmd) ==
    IF cmd.returncode # 0
    THEN IF EndsWith(cmd.output, <<"server", "is", "not", "in", "standby", "mode\n">>)
         THEN Raise("Exception", cmd.output)
         ELSE Raise("CalledProcessError", cmd.output)
    ELSE Return("None")

----------------------------------------------------------------------------
(* State *)

Init ==
    /\ zone = {}
    /\ pc = [n \in Nodes |-> "idle"]
    /\ op = [n \in Nodes |-> "none"]
    /\ role = [n \in Nodes |-> NoRole]
    /\ force = [n \in Nodes |-> FALSE]
    /\ lookup = [n \in Nodes |-> "none"]
    /\ master_seen = [n \in Nodes |-> "none"]
    /\ active_master = [n \in Nodes |-> FALSE]
    /\ master_cname_exists = [n \in Nodes |-> FALSE]
    /\ old_cname_value = [n \in Nodes |-> NoValue]
    /\ result = [n \in Nodes |-> NotCalled]
    /\ db = [n \in Nodes |-> "down"]
    /\ cron = [n \in Nodes |-> FALSE]
    /\ trace = [n \in Nodes |-> <<>>]
    /\ calls = 0

\* A public method is called on an idle node.
Enter(n, method, first, f) ==
    /\ pc[n] = "idle"
    /\ calls < MaxCalls
    /\ calls' = calls + 1
    /\ pc' = [pc EXCEPT ![n] = first]
    /\ op' = [op EXCEPT ![n] = method]
    /\ force' = [force EXCEPT ![n] = f]
    /\ result' = [result EXCEPT ![n] = Running]
    /\ trace' = [trace EXCEPT ![n] = <<>>]
    /\ lookup' = [lookup EXCEPT ![n] = "none"]
    /\ master_seen' = [master_seen EXCEPT ![n] = "none"]
    /\ active_master' = [active_master EXCEPT ![n] = FALSE]
    /\ UNCHANGED <<zone, role, master_cname_exists, old_cname_value, db, cron>>

\* The running method ends with r; its locals are gone.
Leave(n, r) ==
    /\ pc' = [pc EXCEPT ![n] = "idle"]
    /\ result' = [result EXCEPT ![n] = r]
    /\ master_cname_exists' = [master_cname_exists EXCEPT ![n] = FALSE]
    /\ old_cname_value' = [old_cname_value EXCEPT ![n] = NoValue]

\* The running method goes on to the round trip next.
Goto(n, next) ==
    /\ pc' = [pc EXCEPT ![n] = next]
    /\ UNCHANGED <<result, master_cname_exists, old_cname_value>>

----------------------------------------------------------------------------
(* initialise *)

CallInitialise(n) ==
    /\ result[n].kind # "running"
    /\ Enter(n, "initialise", "determine_role", FALSE)

\* initialise, line 137: self.role = self.determine_role(), then the role's
\* prepare function up to its first round trip.
DetermineRole(n) ==
    /\ pc[n] = "determine_role"
    /\ \E resp \in Responses(zone) :
        LET r == determine_role(resp) IN
        /\ lookup' = [lookup EXCEPT ![n] = resp.status]
        /\ IF r.kind = "raise"
           THEN Leave(n, r) /\ UNCHANGED role
           ELSE /\ role' = [role EXCEPT ![n] = r.type]
                /\ Goto(n, IF r.type = MASTER THEN "acquire_query" ELSE "pool_commit")
    /\ UNCHANGED <<zone, op, force, master_seen, active_master, db, cron, trace, calls>>

\* start_process, then poll_process (which does nothing): check_call of the
\* init script raises when the server does not come up.
StartProcess(n) ==
    /\ pc[n] = "start_process"
    /\ trace' = [trace EXCEPT ![n] = Append(@, "start")]
    /\ \E started \in {TRUE} \cup {db[n] # "down"} :
        IF started
        THEN /\ db' = [db EXCEPT ![n] =
                        IF @ # "down" THEN @
                        ELSE IF role[n] = MASTER THEN "primary" ELSE "standby"]
             /\ Leave(n, Return("None"))
        ELSE /\ UNCHANGED db
             /\ Leave(n, Raise("CalledProcessError", <<>>))
    /\ UNCHANGED <<zone, op, role, force, lookup, master_seen, active_master, cron, calls>>

----------------------------------------------------------------------------
(* acquire_master_cname *)

CallAcquire(n, f) ==
    /\ result[n].kind # "running"
    /\ Enter(n, "acquire_master_cname", "acquire_query", f)

RefusedMessage == <<"CNAME", "exists", "and", "force", "is", "False">>

\* Lines 33-45: the lookup and the refusal.
AcquireQuery(n) ==
    /\ pc[n] = "acquire_query"
    /\ \E resp \in Responses(zone) :
        LET l == acquire_lookup(resp) IN
        /\ lookup' = [lookup EXCEPT ![n] = resp.status]
        /\ IF l.raised THEN Leave(n, Raise(l.type, <<>>))
           ELSE IF acquire_refused(l.exists, force[n])
           THEN Leave(n, Raise("Exception", RefusedMessage))
           ELSE /\ pc' = [pc EXCEPT ![n] = "acquire_commit"]
                /\ master_cname_exists' = [master_cname_exists EXCEPT ![n] = l.exists]
                /\ old_cname_value' = [old_cname_value EXCEPT ![n] = l.old]
                /\ UNCHANGED result
    /\ UNCHANGED <<zone, op, role, force, master_seen, active_master, db, cron, trace, calls>>

\* Lines 48-60: the change batch and its commit.  Within initialise,
\* prepare_master goes on to write recovery.conf and the backup cron job.
AcquireCommit(n) ==
    /\ pc[n] = "acquire_commit"
    /\ trace' = [trace EXCEPT ![n] = Append(@, "commit")]
    /\ \E fault \in BOOLEAN :
        LET c == Commit(zone, acquire_changes(n, master_cname_exists[n], old_cname_value[n]), fault) IN
        IF ~c.ok
        THEN /\ Leave(n, Raise("DNSServerError", c.message))
             /\ UNCHANGED <<zone, cron>>
        ELSE /\ zone' = c.zone
             /\ IF op[n] = "initialise"
                THEN /\ cron' = [cron EXCEPT ![n] = TRUE]
                     /\ pc' = [pc EXCEPT ![n] = "start_process"]
                     /\ master_cname_exists' = [master_cname_exists EXCEPT ![n] = FALSE]
                     /\ old_cname_value' = [old_cname_value EXCEPT ![n] = NoValue]
                     /\ UNCHANGED result
                ELSE /\ Leave(n, Return("None"))
                     /\ UNCHANGED cron
    /\ UNCHANGED <<op, role, force, lookup, master_seen, active_master, db, calls>>

----------------------------------------------------------------------------
(* add_to_slave_cname_pool *)

CallRegister(n) ==
    /\ result[n].kind # "running"
    /\ Enter(n, "add_to_slave_cname_pool", "pool_commit", FALSE)

\* Lines 68-88.  Within initialise, prepare_slave has written recovery.conf
\* before, and start_process follows.
PoolCommit(n) ==
    /\ pc[n] = "pool_commit"
    /\ \E fault \in BOOLEAN :
        LET c == Commit(zone, pool_changes(n), fault)
            r == IF c.ok THEN Return("None") ELSE pool_error(c.message)
        IN
        /\ zone' = c.zone
        /\ trace' = [trace EXCEPT ![n] =
                IF ~c.ok /\ r.kind = "return"
                THEN @ \o <<"commit", "warning">>
                ELSE Append(@, "commit")]
        /\ IF r.kind = "return" /\ op[n] = "initialise"
           THEN Goto(n, "start_process")
           ELSE Leave(n, r)
    /\ UNCHANGED <<op, role, force, lookup, master_seen, active_master, db, cron, calls>>

----------------------------------------------------------------------------
(* promote *)

CallPromote(n, f) ==
    /\ result[n].kind # "running"
    /\ Enter(n, "promote", "check_master", f)

\* The server the master CNAME leads to, if it leads to one.
Bound(z) == {v.host : v \in Resolve(z).items}

\* Lines 370-380: check_master, and the refusal to promote.
CheckMaster(n) ==
    /\ pc[n] = "check_master"
    /\ \E reachable \in BOOLEAN :
        LET up == {m \in Bound(zone) : db[m] # "down"}
            connected == reachable /\ up # {}
            in_recovery == \E m \in up : db[m] = "standby"
            answer == check_master(connected, in_recovery)
        IN
        /\ master_seen' = [master_seen EXCEPT ![n] =
                IF ~connected THEN "unreachable"
                ELSE IF in_recovery THEN "standby" ELSE "primary"]
        /\ active_master' = [active_master EXCEPT ![n] = answer]
        /\ IF promote_refused(answer, force[n])
           THEN Leave(n, Return("None"))
           ELSE Goto(n, "promote_cmd")
    /\ UNCHANGED <<zone, op, role, force, lookup, db, cron, trace, calls>>

\* Lines 381-403: the promotion command, and the backup cron job after it.
PromoteCmd(n) ==
    /\ pc[n] = "promote_cmd"
    /\ trace' = [trace EXCEPT ![n] = Append(@, "promote")]
    /\ \E fault \in BOOLEAN :
        LET cmd == pg_ctl_promote(db[n], fault)
            r == promote_result(cmd)
        IN
        /\ Leave(n, r)
        /\ db' = [db EXCEPT ![n] = IF cmd.returncode = 0 THEN "primary" ELSE @]
        /\ cron' = [cron EXCEPT ![n] = IF r.kind = "return" THEN TRUE ELSE @]
        /\ zone' = ApplyBatch(zone, zone, promote_changes(n, zone)).zone
        /\ role' = [role EXCEPT ![n] = role_after_promote(@, r)]
    /\ UNCHANGED <<op, force, lookup, master_seen, active_master, calls>>

----------------------------------------------------------------------------

Next ==
    \E n \in Nodes :
        \/ CallInitialise(n)
        \/ DetermineRole(n)
        \/ StartProcess(n)
        \/ \E f \in BOOLEAN : CallAcquire(n, f)
        \/ AcquireQuery(n)
        \/ AcquireCommit(n)
        \/ CallRegister(n)
        \/ PoolCommit(n)
        \/ \E f \in BOOLEAN : CallPromote(n, f)
        \/ CheckMaster(n)
        \/ PromoteCmd(n)

Spec == Init /\ [][Next]_vars

----------------------------------------------------------------------------
(* Helpers of the properties *)

Count(seq, x) == Cardinality({i \in 1 .. Len(seq) : seq[i] = x})
Has(seq, x) == \E i \in 1 .. Len(seq) : seq[i] = x
Ended(n, method) == op[n] = method /\ pc[n] = "idle" /\ result[n].kind # "running"
OwnMasterRecord(n) == Canonical(MasterRecord(public_hostname(n)))
PoolEntries(z, n) == {r \in SlaveRecords(z) : r.identifier = <<instance_id(n)>>}
Stepped(n) == pc'[n] # pc[n] \/ result'[n] # result[n]

----------------------------------------------------------------------------
(* Properties *)

\* C1 (as claimed): a promote without force whose check of the master CNAME met
\* a reachable server that is not in recovery ends without having got to the
\* promotion command.
C1_RefusedWhenMasterActive ==
    \A n \in Nodes :
        (op[n] = "promote" /\ master_seen[n] = "primary" /\ ~force[n])
            => (pc[n] = "idle" /\ result[n].kind = "return" /\ ~Has(trace[n], "promote"))

\* C2: the zone never holds more than one record for the master CNAME.
C2_AtMostOneMasterBinding == Cardinality(MasterRecords(zone)) <= 1

\* C2 witness: two claims raced for the free name; one was rejected at commit.
C2_Witness ==
    \E n \in Nodes, m \in Nodes :
        /\ n # m
        /\ Ended(n, "acquire_master_cname")
        /\ result[n] = Raise("DNSServerError", AlreadyExistsMessage)
        /\ MasterRecords(zone) = {OwnMasterRecord(m)}

\* C3: a determine_role whose lookup came back sets the role to master when
\* the zone holds no record for the master CNAME and to slave when it holds one,
\* whichever host the record names.
C3_RoleFollowsBinding ==
    [][\A n \in Nodes :
        (pc[n] = "determine_role" /\ Stepped(n) /\ lookup'[n] # "Timeout")
            => /\ role'[n] = (IF MasterRecords(zone) = {} THEN MASTER ELSE SLAVE)
               /\ result'[n].kind # "raise"]_vars

\* C3 witness: a node resolved slave while the master CNAME names the node itself.
C3_Witness ==
    \E n \in Nodes :
        /\ op[n] = "initialise" /\ pc[n] = "pool_commit" /\ role[n] = SLAVE
        /\ MasterRecords(zone) = {OwnMasterRecord(n)}

\* C4: an acquire_master_cname without force whose lookup finds the master CNAME
\* raises the refusal, leaves the zone as it is and commits no change batch.
C4_RefusedClaimChangesNothing ==
    [][\A n \in Nodes :
        (/\ pc[n] = "acquire_query" /\ Stepped(n) /\ ~force[n]
         /\ MasterRecords(zone) # {} /\ lookup'[n] # "Timeout")
            => /\ pc'[n] = "idle"
               /\ result'[n] = Raise("Exception", RefusedMessage)
               /\ zone' = zone
               /\ ~Has(trace'[n], "commit")]_vars

\* C4 witness: the owner of the binding claimed again without force and was refused.
C4_Witness ==
    \E n \in Nodes :
        /\ Ended(n, "acquire_master_cname") /\ ~force[n]
        /\ result[n] = Raise("Exception", RefusedMessage)
        /\ trace[n] = <<>>
        /\ MasterRecords(zone) = {OwnMasterRecord(n)}

\* The lookup of acquire_master_cname still tells the truth about the zone.
ViewFresh(n) ==
    IF master_cname_exists[n]
    THEN MasterRecords(zone) = {Canonical(MasterRecord(old_cname_value[n]))}
    ELSE MasterRecords(zone) = {}

Throttled == Raise("DNSServerError", ThrottlingMessage)

\* C5: a forced acquire_master_cname that returns leaves exactly one record for
\* the master CNAME, naming the claiming node; and it does return whenever the
\* zone is still as its lookup found it (no binding, another node's, its own)
\* and the service accepts the request.
C5_ForcedClaimEndsOwning ==
    [][\A n \in Nodes :
        (pc[n] = "acquire_commit" /\ Stepped(n) /\ force[n])
            => /\ (ViewFresh(n) /\ result'[n] # Throttled) => result'[n] = Return("None")
               /\ result'[n].kind = "return" => MasterRecords(zone') = {OwnMasterRecord(n)}]_vars

\* C5 witness: a forced claim has taken the name over from the node that held it.
C5_Witness ==
    \E n \in Nodes, m \in Nodes :
        /\ n # m
        /\ Ended(m, "acquire_master_cname") /\ ~force[m] /\ result[m] = Return("None")
        /\ Ended(n, "acquire_master_cname") /\ force[n] /\ result[n] = Return("None")
        /\ trace[n] = <<"commit">>
        /\ MasterRecords(zone) = {OwnMasterRecord(n)}

\* C6: the commit of add_to_slave_cname_pool, unless the service refuses the
\* request as such, ends without an error and with exactly one pool record
\* carrying the node's instance id, also when that record was there before.
C6_RegisterIdempotent ==
    [][\A n \in Nodes :
        (pc[n] = "pool_commit" /\ Stepped(n) /\ result'[n] # Throttled)
            => /\ result'[n].kind # "raise"
               /\ Cardinality(PoolEntries(zone', n)) = 1
               /\ PoolEntries(zone, n) # {} => zone' = zone]_vars

\* C6 witness: a repeated registration met "it already exists" and returned.
C6_Witness ==
    \E n \in Nodes :
        /\ Ended(n, "add_to_slave_cname_pool")
        /\ result[n] = Return("None")
        /\ trace[n] = <<"commit", "warning">>
        /\ Cardinality(PoolEntries(zone, n)) = 1

\* C7: a promote that has made its check goes on to the promotion command
\* whenever the check did not meet an active master (the connection failed, or
\* the server met is in recovery) and whenever force is given.
C7_PromotesUnlessRefused ==
    \A n \in Nodes :
        (op[n] = "promote" /\ master_seen[n] # "none"
         /\ (master_seen[n] # "primary" \/ force[n]))
            => \/ pc[n] = "promote_cmd"
               \/ pc[n] = "idle" /\ Count(trace[n], "promote") = 1

\* C7 witness: a forced promote ran the command although a primary answered at
\* the master CNAME.
C7_Witness ==
    \E n \in Nodes :
        /\ Ended(n, "promote") /\ force[n] /\ master_seen[n] = "primary"
        /\ trace[n] = <<"promote">>

\* C8: the promotion command on a server that is not in standby mode ends
\* promote with the Exception that carries the command's output, after one
\* run of the command.
C8_NotStandbyFailsOnce ==
    [][\A n \in Nodes :
        (pc[n] = "promote_cmd" /\ Stepped(n) /\ db[n] = "primary")
            => /\ pc'[n] = "idle"
               /\ result'[n] = Raise("Exception", NotStandbyOutput)
               /\ Count(trace'[n], "promote") = 1
               /\ db'[n] = db[n] /\ cron'[n] = cron[n]]_vars

\* C8 witness: a promote ended that way.
C8_Witness ==
    \E n \in Nodes :
        /\ Ended(n, "promote") /\ db[n] = "primary"
        /\ result[n] = Raise("Exception", NotStandbyOutput)
        /\ trace[n] = <<"promote">>

\* C9 (as claimed): no initialise in the master role that ended with the
\* server failing to start leaves the master CNAME naming that node.
C9_FailedStartReleasesBinding ==
    \A n \in Nodes :
        (/\ Ended(n, "initialise") /\ role[n] = MASTER /\ db[n] = "down"
         /\ result[n] = Raise("CalledProcessError", <<>>))
            => OwnMasterRecord(n) \notin zone

\* C10: a lookup that times out ends the method with that error, in
\* determine_role and in acquire_master_cname alike, and the method commits
\* nothing and starts nothing after it; a node takes the master role, or goes
\* on to create the binding as if the name were free, only when the zone holds
\* no record for the master CNAME at the time of the lookup.
C10_LookupFailureSurfaces ==
    /\ [](\A n \in Nodes :
            lookup[n] = "Timeout"
                => /\ pc[n] = "idle"
                   /\ result[n] = Raise("Timeout", <<>>)
                   /\ trace[n] = <<>>)
    /\ [][\A n \in Nodes :
            /\ (pc[n] = "determine_role" /\ pc'[n] = "acquire_query")
                    => MasterRecords(zone) = {}
            /\ (pc[n] = "acquire_query" /\ pc'[n] = "acquire_commit"
                 /\ ~master_cname_exists'[n])
                    => MasterRecords(zone) = {}]_vars

\* C10 witness: lookups failed in determine_role and in acquire_master_cname
\* while the master CNAME was bound.
C10_Witness ==
    \E n \in Nodes, m \in Nodes :
        /\ Ended(n, "initialise") /\ lookup[n] = "Timeout"
        /\ Ended(m, "acquire_master_cname") /\ lookup[m] = "Timeout"
        /\ MasterRecords(zone) # {}

\* C11: no step of promote (its call, its check of the master, its promotion
\* command) changes the zone: the master CNAME and the slave pool are after a
\* promote what they were before, however it ends.
C11_PromoteLeavesZone ==
    [][\A n \in Nodes :
        ((op[n] = "promote" \/ op'[n] = "promote") /\ (Stepped(n) \/ op'[n] # op[n]))
            => zone' = zone]_vars

\* C11 witness: a promote has succeeded on a node that is not the one the
\* master CNAME names, and the node is still in the slave pool.
C11_Witness ==
    \E n \in Nodes :
        /\ Ended(n, "promote") /\ result[n] = Return("None") /\ db[n] = "primary"
        /\ MasterRecords(zone) # {} /\ OwnMasterRecord(n) \notin zone
        /\ Cardinality(PoolEntries(zone, n)) = 1

SignalFailure == Raise("CalledProcessError", SignalOutput)

\* C12: after exactly the three calls of the scenario (a initialises on the
\* empty zone and becomes master; b initialises, becomes slave and its server
\* runs; promote(force=True) on b does not reach a) and unless pg_ctl itself
\* fails, promote has returned with the server of b promoted, the master
\* CNAME still names a and the pool holds the one record of b.
C12_EndToEnd ==
    \A a \in Nodes, b \in Nodes :
        (/\ a # b /\ calls = 3
         /\ Ended(a, "initialise") /\ role[a] = MASTER /\ result[a] = Return("None")
         /\ role[b] = SLAVE /\ db[b] # "down"
         /\ Ended(b, "promote") /\ force[b] /\ master_seen[b] = "unreachable"
         /\ result[b] # SignalFailure)
            => /\ result[b] = Return("None")
               /\ trace[b] = <<"promote">>
               /\ db[b] = "primary"
               /\ MasterRecords(zone) = {OwnMasterRecord(a)}
               /\ Cardinality(PoolEntries(zone, b)) = 1
               /\ Cardinality(SlaveRecords(zone)) = 1

\* C12 witness: the scenario has run to its end.
C12_Witness ==
    \E a \in Nodes, b \in Nodes :
        /\ a # b /\ calls = 3
        /\ Ended(a, "initialise") /\ role[a] = MASTER /\ result[a] = Return("None")
        /\ role[b] = SLAVE
        /\ Ended(b, "promote") /\ force[b] /\ master_seen[b] = "unreachable"
        /\ result[b] = Return("None") /\ db[b] = "primary"

\* C13 (as claimed): within initialise no change batch is committed before
\* the local server has been started.
C13_WritesAfterStart ==
    \A n \in Nodes :
        (op[n] = "initialise" /\ Has(trace[n], "commit")) => Head(trace[n]) = "start"

Refused == Raise("Exception", RefusedMessage)
AlreadyExists == Raise("DNSServerError", AlreadyExistsMessage)

\* Node n resolved the master role in the initialise it is in (or has ended).
ResolvedMaster(n) ==
    /\ op[n] = "initialise" /\ role[n] = MASTER
    /\ pc[n] # "determine_role" /\ lookup[n] # "Timeout"

\* The claim of that initialise was committed / was turned down.
ClaimWon(n) ==
    ResolvedMaster(n) /\ Has(trace[n], "commit") /\ result[n].type # "DNSServerError"
ClaimLost(n) ==
    /\ ResolvedMaster(n) /\ pc[n] = "idle" /\ result[n] # Throttled
    /\ result[n].type \in {"Exception", "DNSServerError"}

\* C14 (as claimed): of two nodes that both resolved master on the empty zone,
\* only one claim succeeds, and the claim that fails fails at its commit with
\* "it already exists".
C14_LoserFailsAtCommit ==
    \A n \in Nodes, m \in Nodes :
        n # m =>
            /\ ~(ClaimWon(n) /\ ClaimWon(m))
            /\ (ClaimWon(n) /\ ClaimLost(m)) => result[m] = AlreadyExists

\* C14 (amended): of the nodes that resolved master on the empty zone at most
\* one claim succeeds; the first commit the service does not refuse as such
\* succeeds; every later step of another node's claim fails, at its own lookup
\* with the refusal or at its commit with "it already exists", and leaves the
\* zone as it is.
C14_LoserFailsAtLookupOrCommit ==
    /\ [](\A n \in Nodes, m \in Nodes : n # m => ~(ClaimWon(n) /\ ClaimWon(m)))
    /\ [][\A m \in Nodes :
            (/\ ResolvedMaster(m) /\ pc[m] \in {"acquire_query", "acquire_commit"}
             /\ Stepped(m) /\ lookup'[m] # "Timeout" /\ result'[m] # Throttled)
                => IF MasterRecords(zone) # {}
                   THEN /\ result'[m] = (IF pc[m] = "acquire_query" THEN Refused ELSE AlreadyExists)
                        /\ zone' = zone
                   ELSE pc[m] = "acquire_commit" => OwnMasterRecord(m) \in zone']_vars

\* C14 witness: both nodes resolved master and looked the name up while it was
\* free; one commit succeeded, the other was rejected with "it already exists".
C14_Witness ==
    \E n \in Nodes, m \in Nodes :
        /\ n # m /\ ClaimWon(n) /\ ClaimLost(m)
        /\ result[m] = AlreadyExists /\ trace[m] = <<"commit">>
        /\ MasterRecords(zone) = {OwnMasterRecord(n)}

\* C15 (as claimed): check_master answers True exactly when the connection to
\* the master CNAME was opened and the server met is not in recovery and
\* answers the probe; it answers False when the connection fails or the
\* server is in recovery.
C15_CheckMasterConfirmsPrimary ==
    \A n \in Nodes :
        master_seen[n] # "none" => (active_master[n] <=> master_seen[n] = "primary")

\* C16: a promotion command that fails on a server that is not a primary
\* (the server is down, or pg_ctl fails on a standby) ends promote with the
\* CalledProcessError that carries the command's output, after one run of the
\* command, with the server and the crontab as they were.
C16_OtherFailureSurfaces ==
    [][\A n \in Nodes :
        (/\ pc[n] = "promote_cmd" /\ Stepped(n) /\ db[n] # "primary"
         /\ (db[n] = "down" \/ db'[n] # "primary"))
            => /\ pc'[n] = "idle"
               /\ result'[n] = Raise("CalledProcessError",
                                      IF db[n] = "down" THEN NotRunningOutput ELSE SignalOutput)
               /\ Count(trace'[n], "promote") = 1
               /\ db'[n] = db[n] /\ cron'[n] = cron[n]]_vars

\* C16 witness: pg_ctl failed on a running standby and promote ended that way.
C16_Witness ==
    \E n \in Nodes :
        /\ Ended(n, "promote") /\ db[n] = "standby"
        /\ result[n] = SignalFailure
        /\ trace[n] = <<"promote">>

\* C17: self.role changes only in the role resolution of initialise: no step
\* of promote (whether it succeeds or fails), of acquire_master_cname or of
\* add_to_slave_cname_pool changes it.
C17_RoleSetOnlyByResolution ==
    [][\A n \in Nodes :
        role'[n] # role[n]
            => /\ op[n] = "initialise" /\ pc[n] = "determine_role"
               /\ role'[n] = (IF MasterRecords(zone) = {} THEN MASTER ELSE SLAVE)]_vars

\* C17 witness: a slave was promoted and its role is still the resolved one.
C17_Witness ==
    \E n \in Nodes :
        /\ Ended(n, "promote") /\ result[n] = Return("None") /\ db[n] = "primary"
        /\ trace[n] = <<"promote">>
        /\ role[n] = SLAVE

C19_TakeoverNeverUnbinds ==
    /\ [][MasterRecords(zone) # {} => MasterRecords(zone') # {}]_vars
    /\ [][\A n \in Nodes :
            (pc[n] = "acquire_commit" /\ Stepped(n) /\ force[n] /\ master_cname_exists[n])
                => /\ trace'[n] = <<"commit">> /\ pc'[n] = "idle"
                   /\ Cardinality(MasterRecords(zone')) = 1]_vars
    /\ [][\A n \in Nodes :
            (pc[n] = "determine_role" /\ Stepped(n) /\ MasterRecords(zone) # {})
                => role'[n] = role[n] \/ role'[n] = SLAVE]_vars

\* C19 witness: a forced claim took the name from the node that had claimed
\* it in its initialise, in one commit.
C19_Witness ==
    \E n \in Nodes, m \in Nodes :
        /\ n # m
        /\ ClaimWon(m)
        /\ Ended(n, "acquire_master_cname") /\ force[n] /\ lookup[n] = "NOERROR"
        /\ result[n] = Return("None") /\ trace[n] = <<"commit">>
        /\ MasterRecords(zone) = {OwnMasterRecord(n)}

\* C20: the crontab of a node changes within promote only in the step in
\* which the promotion command promotes the server and promote returns; a
\* promote that returns at the guard or whose command fails leaves it.
C20_BackupOnlyAfterPromotion ==
    [][\A n \in Nodes :
        (op[n] = "promote" /\ Stepped(n))
            => \/ cron'[n] = cron[n]
               \/ /\ pc[n] = "promote_cmd" /\ db[n] = "standby" /\ db'[n] = "primary"
                  /\ result'[n] = Return("None") /\ cron'[n] = TRUE]_vars

\* C20 witness: a promote that succeeded has put the backup job in the crontab
\* of a node that never prepared as master.
C20_Witness ==
    \E n \in Nodes :
        /\ Ended(n, "promote") /\ result[n] = Return("None")
        /\ db[n] = "primary" /\ cron[n]
        /\ OwnMasterRecord(n) \notin zone /\ role[n] = SLAVE /\ calls = 3
        /\ \E m \in Nodes : m # n /\ ClaimWon(m)

====
